---- MODULE Spec2Model ----
(***************************************************************************)
(* Model of src/models/helpers/b64_option_serde.rs: the serde adapter that *)
(* writes an Option<Vec<u8>> as a standard padded base64 string (or null)  *)
(* and reads it back.  Strings are sequences of one-character strings,     *)
(* bytes are integers in 0..255.                                           *)
(***************************************************************************)
EXTENDS Integers, Sequences, FiniteSets, TLC

VARIABLES calls, doc

vars == <<calls, doc>>

----------------------------------------------------------------------------
(* Bounds of the checked instances *)

MaxLen == 4
MaxTextLen == 4
NumThreads == 2
MaxRecords == 2

----------------------------------------------------------------------------
(* Values: Option<T>, document nodes, results *)

None == [some |-> FALSE, v |-> <<>>]

Some(x) == [some |-> TRUE, v |-> x]

Null == [type |-> "Null", s |-> <<>>]

Text(s) == [type |-> "Text", s |-> s]

OtherNode(t) == [type |-> t, s |-> <<>>]

OtherShapes == {"Number", "Bool", "Array", "Object"}

Ok(v) == [ok |-> TRUE, value |-> v, err |-> "", reason |-> ""]

Err(kind, reason) == [ok |-> FALSE, value |-> None, err |-> kind, reason |-> reason]

SerOk(n) == [ok |-> TRUE, node |-> n, err |-> ""]

SerErr(kind) == [ok |-> FALSE, node |-> Null, err |-> kind]

----------------------------------------------------------------------------
(* general_purpose::STANDARD: the RFC 4648 alphabet, '=' padding written   *)
(* by encode and required (canonical) by decode, trailing bits rejected.   *)

Alphabet ==
  <<
     "A", "B", "C", "D", "E", "F", "G", "H", "I", "J", "K", "L", "M", "N", "O", "P",
     "Q", "R", "S", "T", "U", "V", "W", "X", "Y", "Z", "a", "b", "c", "d", "e", "f",
     "g", "h", "i", "j", "k", "l", "m", "n", "o", "p", "q", "r", "s", "t", "u", "v",
     "w", "x", "y", "z", "0", "1", "2", "3", "4", "5", "6", "7", "8", "9", "+", "/" >>

PAD_BYTE == "="

IsSymbol(ch) == \E i \in 1..Len(Alphabet) : Alphabet[i] = ch

SymbolValue(ch) == (CHOOSE i \in 1..Len(Alphabet) : Alphabet[i] = ch) - 1

EncodeSymbol(v) == Alphabet[v + 1]

RECURSIVE EncodeNoPad(_)
EncodeNoPad(b) ==
  IF Len(b) = 0 THEN <<>>
  ELSE IF Len(b) = 1 THEN
    << EncodeSymbol(b[1] \div 4), EncodeSymbol((b[1] % 4) * 16) >>
  ELSE IF Len(b) = 2 THEN
    << EncodeSymbol(b[1] \div 4),
       EncodeSymbol((b[1] % 4) * 16 + b[2] \div 16),
       EncodeSymbol((b[2] % 16) * 4) >>
  ELSE
    << EncodeSymbol(b[1] \div 4),
       EncodeSymbol((b[1] % 4) * 16 + b[2] \div 16),
       EncodeSymbol((b[2] % 16) * 4 + b[3] \div 64),
       EncodeSymbol(b[3] % 64) >> \o EncodeNoPad(SubSeq(b, 4, Len(b)))

RECURSIVE Encode(_)
Encode(b) ==
  IF Len(b) = 0 THEN <<>>
  ELSE IF Len(b) = 1 THEN
    << EncodeSymbol(b[1] \div 4), EncodeSymbol((b[1] % 4) * 16), PAD_BYTE, PAD_BYTE >>
  ELSE IF Len(b) = 2 THEN
    << EncodeSymbol(b[1] \div 4),
       EncodeSymbol((b[1] % 4) * 16 + b[2] \div 16),
       EncodeSymbol((b[2] % 16) * 4),
       PAD_BYTE >>
  ELSE
    << EncodeSymbol(b[1] \div 4),
       EncodeSymbol((b[1] % 4) * 16 + b[2] \div 16),
       EncodeSymbol((b[2] % 16) * 4 + b[3] \div 64),
       EncodeSymbol(b[3] % 64) >> \o Encode(SubSeq(b, 4, Len(b)))

(* decode_suffix: walks the input; '=' may only fill the last one or two   *)
(* places of a quad and nothing may follow it; every other character must  *)
(* be in the decode table.  TRUE when no InvalidByte is raised.            *)
RECURSIVE ScanBytes(_, _, _)
ScanBytes(s, i, padding_bytes) ==
  IF i > Len(s) THEN TRUE
  ELSE IF s[i] = PAD_BYTE THEN
    IF (i - 1) % 4 < 2 THEN FALSE ELSE ScanBytes(s, i + 1, padding_bytes + 1)
  ELSE IF padding_bytes > 0 THEN FALSE
  ELSE IF ~IsSymbol(s[i]) THEN FALSE
  ELSE ScanBytes(s, i + 1, padding_bytes)

Morsels(s) == SelectSeq(s, LAMBDA ch : ch # PAD_BYTE)

(* decode_allow_trailing_bits = false: the bits of the last symbol that do *)
(* not reach the output must be zero.                                      *)
TrailingBitsAllowed(m) == TRUE

TrailingBitsZero(m) ==
  IF Len(m) % 4 = 2 THEN SymbolValue(m[Len(m)]) % 16 = 0
  ELSE IF Len(m) % 4 = 3 THEN SymbolValue(m[Len(m)]) % 4 = 0
  ELSE TRUE

RECURSIVE DecodeMorsels(_)
DecodeMorsels(m) ==
  IF Len(m) < 2 THEN <<>>
  ELSE IF Len(m) = 2 THEN
    << SymbolValue(m[1]) * 4 + SymbolValue(m[2]) \div 16 >>
  ELSE IF Len(m) = 3 THEN
    << SymbolValue(m[1]) * 4 + SymbolValue(m[2]) \div 16,
       (SymbolValue(m[2]) % 16) * 16 + SymbolValue(m[3]) \div 4 >>
  ELSE
    << SymbolValue(m[1]) * 4 + SymbolValue(m[2]) \div 16,
       (SymbolValue(m[2]) % 16) * 16 + SymbolValue(m[3]) \div 4,
       (SymbolValue(m[3]) % 4) * 64 + SymbolValue(m[4]) >>
      \o DecodeMorsels(SubSeq(m, 5, Len(m)))

DecodeOk(b) == [ok |-> TRUE, bytes |-> b, reason |-> ""]

DecodeErr(r) == [ok |-> FALSE, bytes |-> <<>>, reason |-> r]

Decode(s) ==
  IF Len(s) % 4 = 1 THEN
    IF s[Len(s)] # PAD_BYTE /\ ~IsSymbol(s[Len(s)])
      THEN DecodeErr("InvalidByte")
      ELSE DecodeErr("InvalidLength")
  ELSE IF ~ScanBytes(s, 1, 0) THEN DecodeErr("InvalidByte")
  ELSE IF Len(s) % 4 # 0 THEN DecodeErr("InvalidPadding")
  ELSE IF ~TrailingBitsZero(Morsels(s)) THEN DecodeErr("InvalidLastSymbol")
  ELSE DecodeOk(DecodeMorsels(Morsels(s)))

DecodeErrorReasons == {"InvalidByte", "InvalidLength", "InvalidPadding", "InvalidLastSymbol"}

----------------------------------------------------------------------------
(* Inputs *)

ByteSet == {0, 104, 111, 251, 255}

TextChars == {"A", "B", "Q", "/", "=", " ", "-"}

SeqsUpTo(S, n) == UNION {[1..k -> S] : k \in 0..n}

Hello == <<104, 101, 108, 108, 111>>

Hello64 == <<"a", "G", "V", "s", "b", "G", "8", "=">>

NotValid == <<"n", "o", "t", " ", "v", "a", "l", "i", "d", " ", "b", "a", "s", "e", "6", "4", "!">>

ExtraTexts ==
  { Hello64, NotValid,
    <<"a", "G", "V", "s", "b", "G", "9", "=">>, <<"a", "G", "V", "s", "b", "G", "8">>, <<"a", "G", "V", "s", " ", "b", "G", "8", "=">>, <<"a", "-", "V", "s", "_", "G", "8", "=">>,
    <<"A", "A", "=", "=", "A", "A", "A", "A">>, <<"+", "/", "+", "/", "A", "A", "A", "=">> }

OptionalByteBlobs == {None} \cup {Some(b) : b \in SeqsUpTo(ByteSet, MaxLen) \cup {Hello}}

EncodedNodes ==
  {Null} \cup {Text(s) : s \in SeqsUpTo(TextChars, MaxTextLen) \cup ExtraTexts}
         \cup {OtherNode(t) : t \in OtherShapes}

----------------------------------------------------------------------------
(* The two functions, as functions of their input *)

(* Option::<String>::deserialize on a document node: null is None, a       *)
(* string is Some, every other shape is the deserializer's type error.     *)
OptionDeserializeLenient(node) ==
  IF node.type = "Text" THEN Ok(Some(node.s)) ELSE Ok(None)

OptionDeserializeEmptyAsNone(node) ==
  IF node.type = "Null" \/ (node.type = "Text" /\ node.s = <<>>) THEN Ok(None)
  ELSE IF node.type = "Text" THEN Ok(Some(node.s))
  ELSE Err("UnexpectedNodeType", "")

OptionDeserialize(node) ==
  IF node.type = "Null" THEN Ok(None)
  ELSE IF node.type = "Text" THEN Ok(Some(node.s))
  ELSE Err("UnexpectedNodeType", "")

serialize(bytes) ==
  IF bytes.some THEN SerOk(Text(Encode(bytes.v))) ELSE SerOk(Null)

deserialize(node) ==
  LET bytes_option == OptionDeserialize(node) IN
    IF ~bytes_option.ok THEN bytes_option
    ELSE IF bytes_option.value.some THEN
      LET deserialized_bytes == Decode(bytes_option.value.v) IN
        IF deserialized_bytes.ok
          THEN Ok(Some(deserialized_bytes.bytes))
          ELSE Err("InvalidBase64", deserialized_bytes.reason)
    ELSE Ok(None)

----------------------------------------------------------------------------
(* Calls in progress.  A call that starts from a value runs serialize and  *)
(* then deserialize on the node it produced; a call that starts from a     *)
(* node runs deserialize and, when that succeeds, serialize on the value.  *)

NoSer == SerErr("pending")

NoDe == Err("pending", "")

CallFromValue(b) ==
  [origin |-> "value", pc |-> "serialize", bytes |-> b, node |-> Null,
   bytes_option |-> None, decoded |-> FALSE, ser |-> NoSer, de |-> NoDe]

CallFromNode(n) ==
  [origin |-> "node", pc |-> "deserialize", bytes |-> None, node |-> n,
   bytes_option |-> None, decoded |-> FALSE, ser |-> NoSer, de |-> NoDe]

DocIdle ==
  [origin |-> "none", pc |-> "idle", vals |-> <<>>, nodes |-> <<>>, i |-> 1,
   out |-> <<>>, acc |-> <<>>, result |-> Err("pending", "")]

Init ==
  /\ calls \in [{1} -> {CallFromValue(b) : b \in OptionalByteBlobs}
                         \cup {CallFromNode(n) : n \in EncodedNodes}]
  /\ doc = DocIdle

SerializeSomeFailsOnEmpty(c) ==
  /\ calls[c].pc = "serialize"
  /\ calls[c].bytes.some
  /\ calls' = [calls EXCEPT ![c].pc = "ser_done",
                 ![c].ser = IF calls[c].bytes.v = <<>> THEN SerErr("custom")
                            ELSE SerOk(Text(Encode(calls[c].bytes.v)))]
  /\ UNCHANGED doc

SerializeSome(c) ==
  /\ calls[c].pc = "serialize"
  /\ calls[c].bytes.some
  /\ calls' = [calls EXCEPT ![c].pc = "ser_done",
                            ![c].ser = SerOk(Text(Encode(calls[c].bytes.v)))]
  /\ UNCHANGED doc

SerializeNoneAsEmptyText(c) ==
  /\ calls[c].pc = "serialize"
  /\ ~calls[c].bytes.some
  /\ calls' = [calls EXCEPT ![c].pc = "ser_done", ![c].ser = SerOk(Text(<<>>))]
  /\ UNCHANGED doc

SerializeNone(c) ==
  /\ calls[c].pc = "serialize"
  /\ ~calls[c].bytes.some
  /\ calls' = [calls EXCEPT ![c].pc = "ser_done", ![c].ser = SerOk(Null)]
  /\ UNCHANGED doc

DeserializeOption(c) ==
  /\ calls[c].pc = "deserialize"
  /\ LET r == OptionDeserialize(calls[c].node) IN
       calls' = IF r.ok
                  THEN [calls EXCEPT ![c].pc = "match", ![c].bytes_option = r.value]
                  ELSE [calls EXCEPT ![c].pc = "de_done", ![c].de = r]
  /\ UNCHANGED doc

(* the local bytes_option of call c *)
BytesOptionShared(c) == calls[1].bytes_option

BytesOptionOf(c) == calls[c].bytes_option

DeserializeSomeErrAsNone(c) ==
  /\ calls[c].pc = "match"
  /\ BytesOptionOf(c).some
  /\ LET deserialized_bytes == Decode(BytesOptionOf(c).v) IN
       calls' = [calls EXCEPT ![c].pc = "de_done", ![c].decoded = TRUE,
                   ![c].de = IF deserialized_bytes.ok
                               THEN Ok(Some(deserialized_bytes.bytes))
                               ELSE Ok(None)]
  /\ UNCHANGED doc

DeserializeSome(c) ==
  /\ calls[c].pc = "match"
  /\ BytesOptionOf(c).some
  /\ LET deserialized_bytes == Decode(BytesOptionOf(c).v) IN
       calls' = [calls EXCEPT ![c].pc = "de_done", ![c].decoded = TRUE,
                   ![c].de = IF deserialized_bytes.ok
                               THEN Ok(Some(deserialized_bytes.bytes))
                               ELSE Err("InvalidBase64", deserialized_bytes.reason)]
  /\ UNCHANGED doc

DeserializeNone(c) ==
  /\ calls[c].pc = "match"
  /\ ~BytesOptionOf(c).some
  /\ calls' = [calls EXCEPT ![c].pc = "de_done", ![c].de = Ok(None)]
  /\ UNCHANGED doc

(* from_value(to_value(x)): the node written by serialize is read back *)
Reparse(c) ==
  /\ calls[c].pc = "ser_done"
  /\ calls[c].origin = "value"
  /\ calls[c].ser.ok
  /\ calls' = [calls EXCEPT ![c].pc = "deserialize", ![c].node = calls[c].ser.node]
  /\ UNCHANGED doc

(* to_value(from_value(n)): the value read by deserialize is written again *)
Reserialize(c) ==
  /\ calls[c].pc = "de_done"
  /\ calls[c].origin = "node"
  /\ calls[c].de.ok
  /\ calls' = [calls EXCEPT ![c].pc = "serialize", ![c].bytes = calls[c].de.value]
  /\ UNCHANGED doc

Next ==
  \E c \in DOMAIN calls :
    \/ SerializeSome(c)
    \/ SerializeNone(c)
    \/ DeserializeOption(c)
    \/ DeserializeSome(c)
    \/ DeserializeNone(c)
    \/ Reparse(c)
    \/ Reserialize(c)

Spec == Init /\ [][Next]_vars

(* a call has returned from both directions, or stopped on an error *)
Finished(c) ==
  \/ calls[c].origin = "value" /\ calls[c].pc = "de_done"
  \/ calls[c].origin = "node" /\ calls[c].pc = "ser_done"
  \/ calls[c].pc = "de_done" /\ ~calls[c].de.ok
  \/ calls[c].pc = "ser_done" /\ ~calls[c].ser.ok

TypeOK ==
  /\ \A c \in DOMAIN calls :
       calls[c].pc \in {"serialize", "ser_done", "deserialize", "match", "de_done"}
  /\ doc.pc \in {"idle", "ser", "ser_done", "de", "de_done"}

----------------------------------------------------------------------------
(* Several calls at once: each thread runs its own call, steps interleave  *)

ConcValues == {None, Some(<<>>), Some(<<104>>)}

ConcNodes ==
  {Null, Text(<<"a", "A", "=", "=">>), Text(<<"A", "B", "=", "=">>), OtherNode("Number")}

InitConcurrent ==
  /\ calls \in [1..NumThreads -> {CallFromValue(b) : b \in ConcValues}
                                   \cup {CallFromNode(n) : n \in ConcNodes}]
  /\ doc = DocIdle

SpecConcurrent == InitConcurrent /\ [][Next]_vars

StepOf(c) ==
  \/ SerializeSome(c)
  \/ SerializeNone(c)
  \/ DeserializeOption(c)
  \/ DeserializeSome(c)
  \/ DeserializeNone(c)
  \/ Reparse(c)
  \/ Reserialize(c)

----------------------------------------------------------------------------
(* A document holding a sequence of records {"content": <field>}, as the   *)
(* derived Serialize/Deserialize of TestStruct inside a Vec drive the two  *)
(* functions: one field after the other, in order, stopping at the first   *)
(* error.                                                                  *)

Record(x) == [content |-> x]

DocValues == {None, Some(<<>>), Some(<<0>>), Some(Hello)}

DocNodes ==
  {Null, Text(Hello64), Text(<<"A", "A", "=", "=">>), Text(NotValid),
   Text(<<"A", "A">>), OtherNode("Number"), OtherNode("Array")}

DocFromValues(vs) ==
  [origin |-> "values", pc |-> "ser", vals |-> vs, nodes |-> <<>>, i |-> 1,
   out |-> <<>>, acc |-> <<>>, result |-> Err("pending", "")]

DocFromNodes(ns) ==
  [origin |-> "nodes", pc |-> "de", vals |-> <<>>, nodes |-> ns, i |-> 1,
   out |-> <<>>, acc |-> <<>>, result |-> Err("pending", "")]

InitDoc ==
  /\ calls = <<>>
  /\ doc \in {DocFromValues(vs) : vs \in SeqsUpTo({Record(x) : x \in DocValues}, MaxRecords)}
        \cup {DocFromNodes(ns) : ns \in SeqsUpTo({Record(n) : n \in DocNodes}, MaxRecords)}

SerializeSeqElementPrepend ==
  /\ doc.pc = "ser"
  /\ doc.i <= Len(doc.vals)
  /\ LET r == serialize(doc.vals[doc.i].content) IN
       doc' = IF r.ok
                THEN [doc EXCEPT !.out = <<Record(r.node)>> \o @, !.i = @ + 1]
                ELSE [doc EXCEPT !.pc = "de_done", !.out = <<>>,
                                 !.result = Err(r.err, "")]
  /\ UNCHANGED calls

SerializeSeqElement ==
  /\ doc.pc = "ser"
  /\ doc.i <= Len(doc.vals)
  /\ LET r == serialize(doc.vals[doc.i].content) IN
       doc' = IF r.ok
                THEN [doc EXCEPT !.out = Append(@, Record(r.node)), !.i = @ + 1]
                ELSE [doc EXCEPT !.pc = "de_done", !.out = <<>>,
                                 !.result = Err(r.err, "")]
  /\ UNCHANGED calls

SerializeSeqEnd ==
  /\ doc.pc = "ser"
  /\ doc.i > Len(doc.vals)
  /\ doc' = [doc EXCEPT !.pc = "ser_done"]
  /\ UNCHANGED calls

ReparseDoc ==
  /\ doc.pc = "ser_done"
  /\ doc' = [doc EXCEPT !.pc = "de", !.nodes = doc.out, !.i = 1]
  /\ UNCHANGED calls

DeserializeSeqElementSkipBad ==
  /\ doc.pc = "de"
  /\ doc.i <= Len(doc.nodes)
  /\ LET r == deserialize(doc.nodes[doc.i].content) IN
       doc' = IF r.ok
                THEN [doc EXCEPT !.acc = Append(@, Record(r.value)), !.i = @ + 1]
                ELSE [doc EXCEPT !.i = @ + 1]
  /\ UNCHANGED calls

DeserializeSeqElement ==
  /\ doc.pc = "de"
  /\ doc.i <= Len(doc.nodes)
  /\ LET r == deserialize(doc.nodes[doc.i].content) IN
       doc' = IF r.ok
                THEN [doc EXCEPT !.acc = Append(@, Record(r.value)), !.i = @ + 1]
                ELSE [doc EXCEPT !.pc = "de_done", !.acc = <<>>, !.result = r]
  /\ UNCHANGED calls

DeserializeSeqEnd ==
  /\ doc.pc = "de"
  /\ doc.i > Len(doc.nodes)
  /\ doc' = [doc EXCEPT !.pc = "de_done", !.result = Ok(doc.acc)]
  /\ UNCHANGED calls

NextDoc ==
  \/ SerializeSeqElement
  \/ SerializeSeqEnd
  \/ ReparseDoc
  \/ DeserializeSeqElement
  \/ DeserializeSeqEnd

SpecDoc == InitDoc /\ [][NextDoc]_vars

----------------------------------------------------------------------------
(* Reference notions the properties are stated with *)

(* bit j (0 = most significant bit of the first byte) of the byte string,  *)
(* zero beyond its end                                                     *)
Bit(b, j) ==
  IF j \div 8 + 1 > Len(b) THEN 0
  ELSE (b[j \div 8 + 1] \div (2 ^ (7 - (j % 8)))) % 2

Sextet(b, k) ==
  32 * Bit(b, 6 * k) + 16 * Bit(b, 6 * k + 1) + 8 * Bit(b, 6 * k + 2)
    + 4 * Bit(b, 6 * k + 3) + 2 * Bit(b, 6 * k + 4) + Bit(b, 6 * k + 5)

NumSymbols(b) == (8 * Len(b) + 5) \div 6

(* RFC 4648 section 4 grammar: quads of alphabet characters, the last quad *)
(* possibly ending in one or two '='                                       *)
WellFormed(s) ==
  /\ Len(s) % 4 = 0
  /\ \A i \in 1..Len(s) :
       \/ IsSymbol(s[i])
       \/ s[i] = PAD_BYTE /\ i = Len(s)
       \/ s[i] = PAD_BYTE /\ i = Len(s) - 1 /\ s[Len(s)] = PAD_BYTE

----------------------------------------------------------------------------
(* C1: round trip of a present value: deserialize applied to the node that *)
(* serialize(Some(b)) produced returns Ok(Some(b)), for every b including  *)
(* the empty sequence, which comes back as Some(empty), never as None.     *)
C1_RoundTripPresent ==
  \A c \in DOMAIN calls :
    (calls[c].origin = "value" /\ calls[c].bytes.some /\ calls[c].pc = "de_done")
      => /\ calls[c].de.ok
         /\ calls[c].de.value.some
         /\ calls[c].de.value.v = calls[c].bytes.v

C1_Witness ==
  \E c \in DOMAIN calls :
    /\ calls[c].origin = "value" /\ calls[c].pc = "de_done"
    /\ calls[c].bytes = Some(<<>>)
    /\ calls[c].node = Text(<<>>)

(* C2: serialize(None) produces the Null node, deserialize(Null) returns   *)
(* Ok(None), and so None survives the round trip.                          *)
C2_NullHandling ==
  \A c \in DOMAIN calls :
    /\ (calls[c].pc = "ser_done" /\ ~calls[c].bytes.some)
         => calls[c].ser = SerOk(Null)
    /\ (calls[c].pc = "de_done" /\ calls[c].node = Null)
         => calls[c].de = Ok(None)
    /\ (calls[c].origin = "value" /\ calls[c].pc = "de_done" /\ ~calls[c].bytes.some)
         => calls[c].de = Ok(None)

C2_Witness ==
  \E c \in DOMAIN calls :
    /\ calls[c].origin = "value" /\ calls[c].pc = "de_done"
    /\ calls[c].bytes = None
    /\ calls[c].ser.ok

(* C3: serialize(Some(b)) produces a Text node holding the standard padded *)
(* base64 of b: 4*ceil(len(b)/3) characters, the k-th symbol the k-th      *)
(* group of six bits of b, then '=' up to a multiple of four; the bytes of *)
(* "hello" give "aGVsbG8=".                                                *)
C3_EncodeFormat ==
  \A c \in DOMAIN calls :
    (calls[c].pc = "ser_done" /\ calls[c].bytes.some)
      => /\ calls[c].ser.ok
         /\ calls[c].ser.node.type = "Text"
         /\ LET s == calls[c].ser.node.s
                b == calls[c].bytes.v
            IN /\ Len(s) = 4 * ((Len(b) + 2) \div 3)
               /\ Len(s) % 4 = 0
               /\ \A k \in 1..Len(s) :
                    IF k <= NumSymbols(b)
                      THEN IsSymbol(s[k]) /\ SymbolValue(s[k]) = Sextet(b, k - 1)
                      ELSE s[k] = PAD_BYTE
               /\ (b = Hello => s = Hello64)

C3_Witness ==
  \E c \in DOMAIN calls :
    /\ calls[c].pc = "ser_done" /\ calls[c].origin = "value"
    /\ calls[c].bytes = Some(Hello)

(* C4: a Text whose string is not well-formed standard padded base64 is    *)
(* answered with the InvalidBase64 error carrying the decoder's reason,    *)
(* never with Ok(None) or Ok(Some(..)), and the call does not get stuck.   *)
C4_InvalidTextRejected ==
  \A c \in DOMAIN calls :
    (calls[c].node.type = "Text" /\ ~WellFormed(calls[c].node.s))
      => /\ calls[c].pc = "de_done"
            => /\ ~calls[c].de.ok
               /\ calls[c].de.err = "InvalidBase64"
               /\ calls[c].de.reason \in DecodeErrorReasons
               /\ calls[c].decoded
         /\ calls[c].pc = "match" => ENABLED DeserializeSome(c)
         /\ calls[c].pc \in {"deserialize", "match", "de_done"}

C4_Witness ==
  \E c \in DOMAIN calls :
    /\ calls[c].pc = "de_done"
    /\ calls[c].node = Text(NotValid)

(* C5: a node that is neither Null nor Text is answered with the           *)
(* UnexpectedNodeType error, which is not InvalidBase64, never with Ok,    *)
(* and the base64 decode is not reached.                                   *)
C5_UnexpectedShapeRejected ==
  \A c \in DOMAIN calls :
    (calls[c].node.type \in OtherShapes)
      => /\ calls[c].pc \in {"deserialize", "de_done"}
         /\ ~calls[c].decoded
         /\ calls[c].pc = "de_done"
              => /\ ~calls[c].de.ok
                 /\ calls[c].de.err = "UnexpectedNodeType"
                 /\ calls[c].de.err # "InvalidBase64"

C5_Witness ==
  \E c \in DOMAIN calls :
    /\ calls[c].pc = "de_done"
    /\ calls[c].node = OtherNode("Number")

C10_CanonicalDecoding ==
  \A c \in DOMAIN calls :
    (calls[c].origin = "node" /\ calls[c].node.type = "Text" /\ calls[c].pc = "ser_done")
      => /\ calls[c].de.ok /\ calls[c].de.value.some
         /\ calls[c].bytes = calls[c].de.value
         /\ calls[c].ser = SerOk(calls[c].node)

C10_Witness ==
  \E c \in DOMAIN calls :
    /\ calls[c].origin = "node" /\ calls[c].pc = "ser_done"
    /\ calls[c].node = Text(<<"A", "A", "Q", "=">>)
    /\ calls[c].bytes = Some(<<0, 4>>)

(* C7: a sequence of records is written as a sequence of the same length   *)
(* whose i-th record holds the encoding of the i-th field (base64 Text for *)
(* a present value, Null for an absent one), and reading that document     *)
(* gives the original sequence back in the same order; written out for     *)
(* [Some("hello"), None] <-> [{"content":"aGVsbG8="}, {"content":null}].   *)
C7_CompositeRoundTrip ==
  (doc.origin = "values" /\ doc.pc \in {"ser_done", "de", "de_done"})
    => /\ Len(doc.out) = Len(doc.vals)
       /\ \A k \in 1..Len(doc.vals) :
            doc.out[k] = IF doc.vals[k].content.some
                           THEN Record(Text(Encode(doc.vals[k].content.v)))
                           ELSE Record(Null)
       /\ doc.vals = <<Record(Some(Hello)), Record(None)>>
            => doc.out = <<Record(Text(Hello64)), Record(Null)>>
       /\ doc.pc = "de_done"
            => doc.result.ok /\ doc.result.value = doc.vals

C7_Witness ==
  /\ doc.origin = "values" /\ doc.pc = "de_done"
  /\ doc.vals = <<Record(Some(Hello)), Record(None)>>
  /\ doc.nodes = <<Record(Text(Hello64)), Record(Null)>>

(* C8: with any number of calls running in any interleaving, every call    *)
(* returns what it returns when run alone on its input, and a call that    *)
(* has not returned can always take its next step.                         *)
C8_Stateless ==
  \A c \in DOMAIN calls :
    /\ calls[c].pc = "ser_done" => calls[c].ser = serialize(calls[c].bytes)
    /\ calls[c].pc = "de_done" => calls[c].de = deserialize(calls[c].node)
    /\ ~Finished(c) => ENABLED StepOf(c)

C8_Witness ==
  /\ NumThreads >= 2
  /\ calls[1].pc = "match" /\ calls[1].bytes_option = None
  /\ calls[2].pc = "de_done" /\ calls[2].node.type = "Text" /\ calls[2].de.ok

(* C9: when one record's field fails to decode (bad base64 or a node of an *)
(* unexpected shape), reading the whole document fails with the error of   *)
(* the first failing field, and no Ok result holding the other records is  *)
(* returned.                                                               *)
C9_NoPartialResult ==
  (doc.pc = "de_done" /\ \E k \in 1..Len(doc.nodes) : ~deserialize(doc.nodes[k].content).ok)
    => LET first == CHOOSE k \in 1..Len(doc.nodes) :
                      /\ ~deserialize(doc.nodes[k].content).ok
                      /\ \A j \in 1..(k - 1) : deserialize(doc.nodes[j].content).ok
       IN /\ ~doc.result.ok
          /\ doc.result.err \in {"InvalidBase64", "UnexpectedNodeType"}
          /\ doc.result = deserialize(doc.nodes[first].content)
          /\ doc.result.value = None
          /\ doc.acc = <<>>
          /\ doc.i = first

C9_Witness ==
  /\ doc.pc = "de_done" /\ doc.origin = "nodes"
  /\ doc.nodes = <<Record(Text(Hello64)), Record(Text(NotValid))>>

====
